---- MODULE Spec2Model ----
(***************************************************************************)
(* Model of app.py: the Flask handler index() that turns an uploaded bank  *)
(* CSV into one PDF per non-negative row and returns them in a ZIP, and    *)
(* generate_payment_pdf() that renders one row.                            *)
(*                                                                         *)
(* Text is a sequence of one-character strings, so that str.startswith,    *)
(* str.replace, os.path.join and os.path.basename are computed, not        *)
(* assumed.  Fixed pieces of text (labels, "row", ".pdf") are one token.   *)
(* Column names are written without diacritics ("Castka" for the CSV       *)
(* column "Částka", "Datum zauctovani", "Mena", "Zprava pro prijemce",     *)
(* "Variabilni symbol"): the module is ASCII.                              *)
(***************************************************************************)
EXTENDS Naturals, Sequences, FiniteSets, TLC

VARIABLES pc, request, decoded, pos, row_number, pdf_file_paths,
          temp_files, rendered, zip_entries, zipped, raised, status, response

vars == <<pc, request, decoded, pos, row_number, pdf_file_paths,
          temp_files, rendered, zip_entries, zipped, raised, status, response>>

\* ---------------------------------------------------------------- bounds
\* Largest number of data lines in an upload.
MaxRows == 2

\* Largest number of cells in one data line.
MaxCells == 1

\* ------------------------------------------------------- values and text
\* A dict value: a string, Python None (DictReader's restval), or the list
\* DictReader stores under restkey.
Str(s) == [kind |-> "str", s |-> s]

None == [kind |-> "none", s |-> <<>>]

List(l) == [kind |-> "list", s |-> l]

\* The key None under which DictReader stores surplus cells.
RESTKEY == "<None>"

NOT_SPECIFIED == <<"n", "e", "u", "v", "e", "d", "e", "n", "o">>

\* The empty-string default of row.get(..., "") in index().
EMPTY == Str(<<>>)

\* str.startswith(c) for a one-character prefix.
StartsWith(s, c) == Len(s) > 0 /\ s[1] = c

\* str.replace(a, b) for one-character a and b.
Replace(s, a, b) == [i \in 1..Len(s) |-> IF s[i] = a THEN b ELSE s[i]]

\* str(n) for a non-negative integer.
RECURSIVE IntToStr(_)
IntToStr(n) ==
    LET digit == <<"0", "1", "2", "3", "4", "5", "6", "7", "8", "9">>[(n % 10) + 1]
    IN  IF n < 10 THEN <<digit>> ELSE IntToStr(n \div 10) \o <<digit>>

\* What an f-string prints for a value: str(None) is "None".
Format(v) == IF v.kind = "none" THEN <<"N", "o", "n", "e">> ELSE v.s

\* ------------------------------------------------------------ the inputs
\* Cell texts of the data lines: empty, a negative amount, a dotted value
\* (a date such as 1.2, or a positive amount), a value with a slash.
CellValues == {<<>>, <<"-", "5">>, <<"1", ".", "2">>, <<"1", "/", "3">>}

DataLines == UNION {[1..n -> CellValues] : n \in 0..MaxCells}

\* Header lines: a blank first line, headers lacking a column, both orders
\* of date and amount, and a header with a third body column.
Headers == {<<>>,
            <<"Castka">>,
            <<"Datum zauctovani">>,
            <<"Datum zauctovani", "Castka">>,
            <<"Castka", "Datum zauctovani">>,
            <<"Zprava pro prijemce", "Variabilni symbol">>,
            <<"Datum zauctovani", "Castka", "Mena">>}

\* The parsed lines of an upload: nothing at all, or a header line followed
\* by data lines.
Uploads == {<<>>} \cup
           {<<h>> \o d : h \in Headers,
                         d \in UNION {[1..n -> DataLines] : n \in 0..MaxRows}}

NoRequest == [method |-> "", file |-> "absent", lines |-> <<>>]

\* ------------------------------------------------------- csv.DictReader
\* DictReader.fieldnames: the first line, read without skipping blanks.
Fieldnames(lines) == IF lines = <<>> THEN <<>> ELSE lines[1]

\* Index of the line DictReader.__next__ returns after p lines were
\* consumed: blank lines (row == []) are skipped; 0 at the end of input.
NextIdx(lines, p) ==
    LET rest == {i \in (p + 1)..Len(lines) : lines[i] # <<>>}
    IN  IF rest = {} THEN 0 ELSE CHOOSE i \in rest : \A j \in rest : i <= j

\* The dict DictReader builds: zip of names and cells, the surplus cells
\* under restkey, the names without a cell mapped to restval (None).
DictRow(fieldnames, cells) ==
    LET lf == Len(fieldnames)
        lr == Len(cells)
        last(k) == CHOOSE i \in 1..lf :
                      fieldnames[i] = k /\ \A j \in (i + 1)..lf : fieldnames[j] # k
        d == [k \in {fieldnames[i] : i \in 1..lf} |->
                 IF last(k) <= lr THEN Str(cells[last(k)]) ELSE None]
    IN  IF lf < lr THEN d @@ (RESTKEY :> List(SubSeq(cells, lf + 1, lr))) ELSE d

\* dict.get(key, default)
Get(row, key, default) == IF key \in DOMAIN row THEN row[key] ELSE default

\* ------------------------------------------------- generate_payment_pdf
\* The loop that rewrites the row IN PLACE: every value equal to "" becomes
\* the sentinel.  None and the restkey list are not equal to "".
Normalize(row) ==
    [k \in DOMAIN row |->
        IF row[k].kind = "str" /\ row[k].s = <<>> THEN Str(NOT_SPECIFIED) ELSE row[k]]

\* The body lines that carry a field, as printed by the f-strings.
PdfBody(row) ==
    LET n == Normalize(row)
        datum_zauctovani == Get(n, "Datum zauctovani", Str(NOT_SPECIFIED))
        jmeno_a_oddil == Get(n, "Zprava pro prijemce", Str(NOT_SPECIFIED))
        castka == Get(n, "Castka", Str(NOT_SPECIFIED))
        mena == Get(n, "Mena", Str(NOT_SPECIFIED))
        var_symbol == Get(n, "Variabilni symbol", Str(NOT_SPECIFIED))
    IN  [jmeno |-> <<"Jmeno a pohybova aktivita: ">> \o Format(jmeno_a_oddil),
         symbol |-> <<"Rodne cislo (var. symbol): ">> \o Format(var_symbol),
         prijato |-> <<"Prijato dne: ">> \o Format(datum_zauctovani),
         castka |-> <<"Castka: ">> \o Format(castka) \o <<" ">> \o Format(mena)]

\* Variant: the render works on a copy and leaves the caller's dict alone.
generate_payment_pdf_Copy(row) == [row |-> row, pdf |-> PdfBody(row)]

\* generate_payment_pdf(row): the row as the caller sees it afterwards (the
\* same dict object, rewritten) and the returned bytes.
generate_payment_pdf(row) == [row |-> Normalize(row), pdf |-> PdfBody(row)]

\* ------------------------------------------------------------- os.path
temp_dir == <<"/", "t">>

LastSlash(p) ==
    LET s == {i \in 1..Len(p) : p[i] = "/"}
    IN  IF s = {} THEN 0 ELSE CHOOSE i \in s : \A j \in s : j <= i

\* os.path.join(a, b)
PathJoin(a, b) ==
    IF StartsWith(b, "/") THEN b
    ELSE IF a = <<>> \/ a[Len(a)] = "/" THEN a \o b
    ELSE a \o <<"/">> \o b

\* os.path.basename(p)
Basename(p) == SubSeq(p, LastSlash(p) + 1, Len(p))

\* os.path.dirname(p), for a path with a directory part below the root
Dirname(p) == SubSeq(p, 1, LastSlash(p) - 1)

\* open(path, 'wb') succeeds when the directory of the path exists; the only
\* directory of the request is the fresh temporary directory.
CanOpenForWrite(p) == LastSlash(p) > 1 /\ Dirname(p) = temp_dir

NoFiles == [p \in {} |-> <<>>]

\* ------------------------------------------------------------- index()
Init ==
    /\ pc = "idle"
    /\ request = NoRequest
    /\ decoded = FALSE
    /\ pos = 0
    /\ row_number = 0
    /\ pdf_file_paths = <<>>
    /\ temp_files = NoFiles
    /\ rendered = <<>>
    /\ zip_entries = <<>>
    /\ zipped = FALSE
    /\ raised = ""
    /\ status = 0
    /\ response = "none"

\* Variant: the handler does not test the file and processes empty data.
PostNoFile_Unchecked ==
    /\ pc = "idle"
    /\ \E f \in {"absent", "unnamed"} :
          request' = [method |-> "POST", file |-> f, lines |-> <<>>]
    /\ decoded' = TRUE
    /\ pos' = 0
    /\ row_number' = 0
    /\ pdf_file_paths' = <<>>
    /\ pc' = "loop"
    /\ UNCHANGED <<temp_files, rendered, zip_entries, zipped, raised, status,
                   response>>

\* GET: the upload form.
GetForm ==
    /\ pc = "idle"
    /\ request' = [method |-> "GET", file |-> "absent", lines |-> <<>>]
    /\ status' = 200
    /\ response' = "form"
    /\ pc' = "done"
    /\ UNCHANGED <<decoded, pos, row_number, pdf_file_paths, temp_files,
                   rendered, zip_entries, zipped, raised>>

\* POST whose request.files.get("csv_file") is falsy: no such part, or a
\* part with an empty filename.
PostNoFile ==
    /\ pc = "idle"
    /\ \E f \in {"absent", "unnamed"} :
          request' = [method |-> "POST", file |-> f, lines |-> <<>>]
    /\ status' = 400
    /\ response' = "No file uploaded."
    /\ pc' = "done"
    /\ UNCHANGED <<decoded, pos, row_number, pdf_file_paths, temp_files,
                   rendered, zip_entries, zipped, raised>>

\* POST with a file: read, decode, build the reader, start the loop.  The
\* header line counts as consumed.
PostUpload ==
    /\ pc = "idle"
    /\ \E u \in Uploads :
          /\ request' = [method |-> "POST", file |-> "file", lines |-> u]
          /\ pos' = IF u = <<>> THEN 0 ELSE 1
    /\ decoded' = TRUE
    /\ row_number' = 0
    /\ pdf_file_paths' = <<>>
    /\ pc' = "loop"
    /\ UNCHANGED <<temp_files, rendered, zip_entries, zipped, raised, status,
                   response>>

\* The line the for-loop gets next, its dict, and the values index() reads.
idx == NextIdx(request.lines, pos)

row == DictRow(Fieldnames(request.lines), request.lines[idx])

amount == Get(row, "Castka", EMPTY)

\* Variant: an empty amount is dropped as well.
Dropped_EmptyToo ==
    amount.kind = "str" /\ (StartsWith(amount.s, "-") \/ amount.s = <<>>)

Dropped == amount.kind = "str" /\ StartsWith(amount.s, "-")

Accepted == amount.kind = "str" /\ ~Dropped

generated == generate_payment_pdf(row)

datum_zauctovani == Get(generated.row, "Datum zauctovani", EMPTY)

\* Variant: the filename carries the index of the CSV data line instead of
\* the count of kept rows.
pdf_filename_LineIndex ==
    <<"row">> \o IntToStr(idx - 1) \o <<"_">>
        \o Replace(datum_zauctovani.s, ".", "-") \o <<".pdf">>

pdf_filename ==
    <<"row">> \o IntToStr(row_number + 1) \o <<"_">>
        \o Replace(datum_zauctovani.s, ".", "-") \o <<".pdf">>

output_path == PathJoin(temp_dir, pdf_filename)

\* An exception leaves the with-block (the temporary directory is removed)
\* and index(); nothing catches it, the request ends in a server error.
Raise(exception) ==
    /\ raised' = exception
    /\ temp_files' = NoFiles
    /\ status' = 500
    /\ response' = "Internal Server Error"
    /\ pc' = "done"

\* The amount starts with '-': continue.
SkipRow ==
    /\ pc = "loop" /\ idx # 0
    /\ Dropped
    /\ pos' = idx
    /\ UNCHANGED <<pc, request, decoded, row_number, pdf_file_paths,
                   temp_files, rendered, zip_entries, zipped, raised, status,
                   response>>

\* The amount is None: None.startswith raises AttributeError.
AmountError ==
    /\ pc = "loop" /\ idx # 0
    /\ amount.kind = "none"
    /\ pos' = idx
    /\ Raise("AttributeError")
    /\ UNCHANGED <<request, decoded, row_number, pdf_file_paths,
                   rendered, zip_entries, zipped>>

\* Variant: a failed render is caught per record and the loop goes on.
RenderError_Isolated ==
    /\ pc = "loop" /\ idx # 0
    /\ Accepted
    /\ pos' = idx
    /\ row_number' = row_number + 1
    /\ raised' = "RenderError"
    /\ UNCHANGED <<pc, request, decoded, pdf_file_paths, temp_files, rendered,
                   zip_entries, zipped, status, response>>

\* The font, the letterhead text or the signature image cannot be loaded:
\* generate_payment_pdf raises.
RenderError ==
    /\ pc = "loop" /\ idx # 0
    /\ Accepted
    /\ pos' = idx
    /\ row_number' = row_number + 1
    /\ Raise("RenderError")
    /\ UNCHANGED <<request, decoded, pdf_file_paths, rendered, zip_entries, zipped>>

\* The date is None: None.replace raises AttributeError after the render.
DateError ==
    /\ pc = "loop" /\ idx # 0
    /\ Accepted
    /\ datum_zauctovani.kind = "none"
    /\ pos' = idx
    /\ row_number' = row_number + 1
    /\ rendered' = Append(rendered, [idx |-> idx, pdf |-> generated.pdf])
    /\ Raise("AttributeError")
    /\ UNCHANGED <<request, decoded, pdf_file_paths, zip_entries, zipped>>

\* open(output_path, 'wb') raises FileNotFoundError.
WriteError ==
    /\ pc = "loop" /\ idx # 0
    /\ Accepted
    /\ datum_zauctovani.kind = "str"
    /\ ~CanOpenForWrite(output_path)
    /\ pos' = idx
    /\ row_number' = row_number + 1
    /\ rendered' = Append(rendered, [idx |-> idx, pdf |-> generated.pdf])
    /\ Raise("FileNotFoundError")
    /\ UNCHANGED <<request, decoded, pdf_file_paths, zip_entries, zipped>>

\* Variant: the new path is put in front of the list instead of at its end.
RowDone_Prepend ==
    /\ pc = "loop" /\ idx # 0
    /\ Accepted
    /\ datum_zauctovani.kind = "str"
    /\ CanOpenForWrite(output_path)
    /\ pos' = idx
    /\ row_number' = row_number + 1
    /\ rendered' = Append(rendered, [idx |-> idx, pdf |-> generated.pdf])
    /\ temp_files' = (output_path :> generated.pdf) @@ temp_files
    /\ pdf_file_paths' = <<output_path>> \o pdf_file_paths
    /\ UNCHANGED <<pc, request, decoded, zip_entries, zipped, raised, status,
                   response>>

\* One full iteration: render, name, write, remember the path.
RowDone ==
    /\ pc = "loop" /\ idx # 0
    /\ Accepted
    /\ datum_zauctovani.kind = "str"
    /\ CanOpenForWrite(output_path)
    /\ pos' = idx
    /\ row_number' = row_number + 1
    /\ rendered' = Append(rendered, [idx |-> idx, pdf |-> generated.pdf])
    /\ temp_files' = (output_path :> generated.pdf) @@ temp_files
    /\ pdf_file_paths' = Append(pdf_file_paths, output_path)
    /\ UNCHANGED <<pc, request, decoded, zip_entries, zipped, raised, status,
                   response>>

\* Variant: building the archive fails when there is nothing to put in it.
Assemble_NeedsEntries ==
    /\ pc = "loop" /\ idx = 0
    /\ pos' = Len(request.lines)
    /\ IF pdf_file_paths = <<>>
       THEN /\ Raise("ValueError")
            /\ UNCHANGED <<zip_entries, zipped>>
       ELSE /\ zip_entries' = [k \in 1..Len(pdf_file_paths) |->
                                 [name |-> Basename(pdf_file_paths[k]),
                                  data |-> temp_files[pdf_file_paths[k]]]]
            /\ zipped' = TRUE
            /\ temp_files' = NoFiles
            /\ status' = 200
            /\ response' = "pdf_confirmations.zip"
            /\ pc' = "done"
            /\ UNCHANGED raised
    /\ UNCHANGED <<request, decoded, row_number, pdf_file_paths, rendered>>

\* The reader is exhausted: zip every remembered path under its basename,
\* send the archive, leave the with-block.
Assemble ==
    /\ pc = "loop" /\ idx = 0
    /\ pos' = Len(request.lines)
    /\ zip_entries' = [k \in 1..Len(pdf_file_paths) |->
                          [name |-> Basename(pdf_file_paths[k]),
                           data |-> temp_files[pdf_file_paths[k]]]]
    /\ zipped' = TRUE
    /\ temp_files' = NoFiles
    /\ status' = 200
    /\ response' = "pdf_confirmations.zip"
    /\ pc' = "done"
    /\ UNCHANGED <<request, decoded, row_number, pdf_file_paths, rendered, raised>>

Next ==
    \/ GetForm
    \/ PostNoFile
    \/ PostUpload
    \/ SkipRow
    \/ AmountError
    \/ RenderError
    \/ DateError
    \/ WriteError
    \/ RowDone
    \/ Assemble

Spec == Init /\ [][Next]_vars

TypeOK ==
    /\ pc \in {"idle", "loop", "done"}
    /\ status \in {0, 200, 400, 500}
    /\ row_number \in 0..(MaxRows + 1)
    /\ pos \in 0..(MaxRows + 1)
    /\ decoded \in BOOLEAN
    /\ zipped \in BOOLEAN

\* ------------------------------------------- the upload, as the CSV has it
\* The header line of the upload.
csv_header == Fieldnames(request.lines)

\* The data rows: the non-blank lines after the header.
DataIdx == {i \in 2..Len(request.lines) : request.lines[i] # <<>>}

Column(key) == {j \in 1..Len(csv_header) : csv_header[j] = key}

\* Line i has a cell in the column named key.
HasCell(i, key) == \E j \in Column(key) : j <= Len(request.lines[i])

RawCell(i, key) == request.lines[i][CHOOSE j \in Column(key) : TRUE]

\* The raw amount of line i begins with '-'.
StartsWithMinus(i) == HasCell(i, "Castka") /\ StartsWith(RawCell(i, "Castka"), "-")

\* The rows the filter keeps, by the raw text of the CSV.
KeptIdx == {i \in DataIdx : ~StartsWithMinus(i)}

\* The k-th smallest element of a set of line numbers.
Kth(S, k) == CHOOSE i \in S : Cardinality({j \in S : j < i}) = k - 1

\* The raw posting date of line i, empty when the line has none.
RawDate(i) ==
    IF HasCell(i, "Datum zauctovani") THEN RawCell(i, "Datum zauctovani") ELSE <<>>

\* The posting date as index() reads it after the render: an empty cell has
\* become the sentinel.
SeenDate(i) ==
    IF HasCell(i, "Datum zauctovani") /\ RawCell(i, "Datum zauctovani") = <<>>
    THEN NOT_SPECIFIED
    ELSE RawDate(i)

NameOf(k, date) ==
    <<"row">> \o IntToStr(k) \o <<"_">> \o Replace(date, ".", "-") \o <<".pdf">>

HasNumber(name, k) ==
    LET p == <<"row">> \o IntToStr(k) \o <<"_">>
    IN  Len(name) >= Len(p) /\ SubSeq(name, 1, Len(p)) = p

Ragged(i) == Len(request.lines[i]) # Len(csv_header)

\* The text the body is to show for a field of line i.
Shown(i, key) ==
    IF HasCell(i, key) /\ RawCell(i, key) # <<>> THEN RawCell(i, key) ELSE NOT_SPECIFIED

ExpectedBody(i) ==
    [jmeno |-> <<"Jmeno a pohybova aktivita: ">> \o Shown(i, "Zprava pro prijemce"),
     symbol |-> <<"Rodne cislo (var. symbol): ">> \o Shown(i, "Variabilni symbol"),
     prijato |-> <<"Prijato dne: ">> \o Shown(i, "Datum zauctovani"),
     castka |-> <<"Castka: ">> \o Shown(i, "Castka") \o <<" ">> \o Shown(i, "Mena")]

C2_SequenceNumbers ==
    /\ raised = "" => row_number = Cardinality({i \in KeptIdx : i <= pos})
    /\ \A k \in 1..Len(pdf_file_paths) : HasNumber(Basename(pdf_file_paths[k]), k)
    /\ \A k \in 1..Len(zip_entries) : HasNumber(zip_entries[k].name, k)
    /\ \A k, l \in 1..Len(zip_entries) :
          k # l => zip_entries[k].name # zip_entries[l].name
    /\ \A k, l \in 1..Len(pdf_file_paths) :
          k # l => pdf_file_paths[k] # pdf_file_paths[l]

\* An archive whose first entry comes from a row that follows a dropped row.
C2_Witness ==
    /\ zipped /\ Len(zip_entries) >= 1
    /\ \E i \in DataIdx : StartsWithMinus(i) /\ i < Kth(KeptIdx, 1)

\* C3 as claimed: the date segment of every filename is the raw CSV value of
\* the posting date with '.' replaced by '-', an empty value giving row<N>_.pdf.
C3_RawDateInFilename ==
    \A k \in 1..Len(pdf_file_paths) :
        Basename(pdf_file_paths[k]) = NameOf(k, RawDate(Kth(KeptIdx, k)))

\* C3 amended: the date segment is the posting date as left by the render,
\* with '.' replaced by '-': the sentinel for an empty cell, the raw text for
\* a non-empty cell, nothing when the CSV has no such column.
C3_NormalizedDateInFilename ==
    \A k \in 1..Len(pdf_file_paths) :
        Basename(pdf_file_paths[k]) = NameOf(k, SeenDate(Kth(KeptIdx, k)))

\* An archive with a file of a row whose posting-date cell is empty, and a
\* file of a row with a dotted date.
C3_Witness ==
    /\ zipped
    /\ \E k \in 1..Len(pdf_file_paths) :
          /\ HasCell(Kth(KeptIdx, k), "Datum zauctovani")
          /\ RawDate(Kth(KeptIdx, k)) = <<>>
    /\ \E k \in 1..Len(pdf_file_paths) : RawDate(Kth(KeptIdx, k)) = <<"1", ".", "2">>

\* C4 as claimed: a data row with fewer or more cells than the header never
\* aborts the request.
C4_RaggedRowNeverAborts ==
    ~(raised = "AttributeError" /\ pos \in DataIdx /\ Ragged(pos))

\* C5 as claimed: every document of a returned archive shows, next to each
\* label, the CSV value of the field when it is non-empty and the sentinel
\* when the field is empty or absent.
C5_FieldOrSentinel ==
    zipped =>
        \A k \in 1..Len(zip_entries) :
            zip_entries[k].data = ExpectedBody(Kth(KeptIdx, k))

\* C6: when no row is kept (no line at all, header only, or every row begins
\* with '-'), the request ends with status 200 and an archive of no entries.
C6_EmptyArchive ==
    (pc = "done" /\ request.file = "file" /\ KeptIdx = {}) =>
        /\ status = 200
        /\ response = "pdf_confirmations.zip"
        /\ zipped
        /\ zip_entries = <<>>

\* The request ended on an upload whose rows were all dropped.
C6_Witness ==
    /\ pc = "done" /\ request.file = "file"
    /\ KeptIdx = {} /\ DataIdx # {}
    /\ zipped

\* C7: a POST without a file ends at once with status 400 and the plain
\* message; nothing is decoded, read, rendered, written or zipped.
C7_NoFileNoProcessing ==
    (request.method = "POST" /\ request.file # "file") =>
        /\ pc = "done"
        /\ status = 400
        /\ response = "No file uploaded."
        /\ raised = ""
        /\ ~decoded
        /\ pos = 0 /\ row_number = 0
        /\ rendered = <<>>
        /\ pdf_file_paths = <<>> /\ temp_files = NoFiles
        /\ ~zipped /\ zip_entries = <<>>

\* A POST whose file part has an empty filename was answered.
C7_Witness ==
    request.method = "POST" /\ request.file = "unnamed" /\ status = 400

\* C8 as claimed: once the request has ended without a parsing or rendering
\* failure, every rendered record has its archive entry, named exactly by
\* its filename and holding its bytes, whatever the posting date.
C8_EveryRecordArchived ==
    (pc = "done" /\ raised \notin {"AttributeError", "RenderError"}) =>
        \A k \in 1..Len(rendered) :
            /\ zipped
            /\ k <= Len(zip_entries)
            /\ zip_entries[k].name = NameOf(k, SeenDate(rendered[k].idx))
            /\ zip_entries[k].data = rendered[k].pdf

\* C9: when a render fails the request is over with a server error, there
\* is no archive, and only rows before the failing one were rendered.
C9_RenderFailureIsFatal ==
    raised = "RenderError" =>
        /\ pc = "done"
        /\ status = 500
        /\ ~zipped /\ zip_entries = <<>>
        /\ Len(rendered) = row_number - 1
        /\ \A k \in 1..Len(rendered) : rendered[k].idx < pos

\* A render failed after an earlier record had been rendered and written.
C9_Witness ==
    raised = "RenderError" /\ rendered # <<>> /\ pdf_file_paths # <<>>

\* C10: the k-th render is of the k-th kept row (each once, in CSV order);
\* an archive exists only when every kept row was rendered, and its k-th
\* entry holds the k-th rendered document.
C10_RenderedOnceInOrder ==
    /\ Len(rendered) <= Cardinality(KeptIdx)
    /\ \A k \in 1..Len(rendered) : rendered[k].idx = Kth(KeptIdx, k)
    /\ zipped =>
          /\ Len(rendered) = Cardinality(KeptIdx)
          /\ Len(zip_entries) = Len(rendered)
          /\ \A k \in 1..Len(rendered) : zip_entries[k].data = rendered[k].pdf

\* An archive of two entries with different documents.
C10_Witness ==
    /\ zipped /\ Len(zip_entries) = 2
    /\ zip_entries[1].data # zip_entries[2].data
====
